---- MODULE Spec2Model ----
(***************************************************************************)
(* State-machine model of the sygma bridge pallet (bridge/src/lib.rs).     *)
(* Storage items are the variables; every dispatchable is an operator that *)
(* maps the current storage and the call's arguments to an outcome (the    *)
(* DispatchResult and the storage after the call), and one action per      *)
(* dispatchable applies it.                                                *)
(***************************************************************************)
EXTENDS Integers, Sequences, FiniteSets, TLC

VARIABLES
    MpcKey,         \* StorageValue<[u8; 32]>, ValueQuery
    IsPaused,       \* StorageValue<bool>, ValueQuery
    DepositCounts,  \* StorageValue<DepositNonce>, ValueQuery
    UsedNonces,     \* StorageDoubleMap<DomainID, U256, U256>, OptionQuery
    events,         \* frame_system event log (deposit_event appends to it)
    call,           \* the last dispatched call: [op, origin, arg]
    result,         \* the DispatchResult of the last dispatched call
    keySetOk        \* history: some set_mpc_key call has returned Ok

vars == <<MpcKey, IsPaused, DepositCounts, UsedNonces, events, call, result, keySetOk>>

storageVars == <<MpcKey, IsPaused, DepositCounts, UsedNonces, events>>

(***************************************************************************)
(* Bounds of the model.                                                    *)
(***************************************************************************)
\* modelled length of the [u8; 32] key
KeyLen == 2
\* largest byte value drawn for a key byte
MaxByte == 1
\* cap on the length of the event log
MaxEvents == 3
\* longest proposal batch drawn
MaxBatch == 2

(***************************************************************************)
(* Configuration and input domains.                                        *)
(***************************************************************************)
\* T::DestDomainID of the test runtime
DestDomainID == 1

\* Callers: Origin::root() and Origin::from(Some(ALICE)).
Origins == {"Root", "Signed"}

Keys == [1..KeyLen -> 0..MaxByte]

\* Destination domains of a deposit.
Domains == {1, 2}

\* Deposit nonces carried by inbound proposals.
Nonces == {0, 1}

\* Transaction hashes passed to retry.
Hashes == {0, 1}

\* Assets of a deposit: one bound to a resource id, one not.
Assets == {"BoundAsset", "UnboundAsset"}

\* What T::AssetTransactor would answer to the transfers of a deposit: both
\* the fee and the principal transfer succeed, or the fee transfer succeeds
\* and the principal transfer fails.
TransactorOutcomes == {"BothSucceed", "PrincipalFails"}

\* struct Proposal; the proposals drawn come from one origin domain, with
\* resource_id and data fixed (no dispatchable reads them).
Proposal ==
    [origin_domain_id : {2}, deposit_nonce : Nonces,
     resource_id : {0}, data : {<<>>}]

RECURSIVE SeqsUpTo(_, _)
SeqsUpTo(S, n) ==
    IF n = 0 THEN {<<>>}
    ELSE LET shorter == SeqsUpTo(S, n - 1)
         IN  shorter \cup {Append(s, x) : s \in {t \in shorter : Len(t) = n - 1}, x \in S}

Batches == SeqsUpTo(Proposal, MaxBatch)

\* The _signature bytes of execute_proposal, by provenance: produced by the
\* MPC key over exactly the submitted batch, or anything else.
Signatures == {"SignedByMpc", "Forged"}

(***************************************************************************)
(* Events and helpers.                                                     *)
(***************************************************************************)
BridgePaused(domain) == <<"BridgePaused", domain>>

BridgeUnpaused(domain) == <<"BridgeUnpaused", domain>>

Retry(hash) == <<"Retry", hash>>

\* Clear::is_clear on [u8; 32]: equal to the all-zero default
is_clear(key) == \A i \in DOMAIN key : key[i] = 0

\* T::BridgeCommitteeOrigin::ensure_origin (EnsureRoot in the test runtime)
EnsureOrigin(origin) == origin = "Root"

Storage ==
    [MpcKey |-> MpcKey, IsPaused |-> IsPaused, DepositCounts |-> DepositCounts,
     UsedNonces |-> UsedNonces, events |-> events]

\* Err(e): the ? / ensure! early return, nothing written
Err(e) == [result |-> e, storage |-> Storage]

Ok(s) == [result |-> "Ok", storage |-> s]

\* Pallet::deposit_event
deposit_event(s, e) == [s EXCEPT !.events = Append(@, e)]

transactional_no_rollback(out) == out

\* #[transactional]: the storage layer is committed on Ok and discarded on Err
transactional(out) ==
    IF out.result = "Ok" THEN out ELSE [result |-> out.result, storage |-> Storage]

\* Pallet::verify
verify(proposals, signature) == FALSE

(***************************************************************************)
(* The dispatchables.                                                      *)
(***************************************************************************)
pause_bridge_no_key_check(origin) ==
    IF ~EnsureOrigin(origin) THEN Err("BadOrigin")
    ELSE Ok(deposit_event([Storage EXCEPT !.IsPaused = TRUE],
                          BridgePaused(DestDomainID)))

pause_bridge_not_idempotent(origin) ==
    IF ~EnsureOrigin(origin) THEN Err("BadOrigin")
    ELSE IF is_clear(MpcKey) THEN Err("MissingMpcKey")
    ELSE IF IsPaused THEN Err("BridgePaused")
    ELSE Ok(deposit_event([Storage EXCEPT !.IsPaused = TRUE],
                          BridgePaused(DestDomainID)))

pause_bridge_no_event(origin) ==
    IF ~EnsureOrigin(origin) THEN Err("BadOrigin")
    ELSE IF is_clear(MpcKey) THEN Err("MissingMpcKey")
    ELSE Ok([Storage EXCEPT !.IsPaused = TRUE])

pause_bridge(origin) ==
    IF ~EnsureOrigin(origin) THEN Err("BadOrigin")
    ELSE IF is_clear(MpcKey) THEN Err("MissingMpcKey")
    ELSE Ok(deposit_event([Storage EXCEPT !.IsPaused = TRUE],
                          BridgePaused(DestDomainID)))

unpause_bridge_no_paused_check(origin) ==
    IF ~EnsureOrigin(origin) THEN Err("BadOrigin")
    ELSE IF is_clear(MpcKey) THEN Err("MissingMpcKey")
    ELSE Ok(deposit_event([Storage EXCEPT !.IsPaused = FALSE],
                          BridgeUnpaused(DestDomainID)))

unpause_bridge(origin) ==
    IF ~EnsureOrigin(origin) THEN Err("BadOrigin")
    ELSE IF is_clear(MpcKey) THEN Err("MissingMpcKey")
    ELSE IF ~IsPaused THEN Err("BridgeUnpaused")
    ELSE Ok(deposit_event([Storage EXCEPT !.IsPaused = FALSE],
                          BridgeUnpaused(DestDomainID)))

set_mpc_key_no_origin_check(origin, key) ==
    IF ~is_clear(MpcKey) THEN Err("MpcKeyNotUpdatable")
    ELSE Ok([Storage EXCEPT !.MpcKey = key])

set_mpc_key_no_clear_check(origin, key) ==
    IF ~EnsureOrigin(origin) THEN Err("BadOrigin")
    ELSE Ok([Storage EXCEPT !.MpcKey = key])

set_mpc_key_pauses(origin, key) ==
    IF ~EnsureOrigin(origin) THEN Err("BadOrigin")
    ELSE IF ~is_clear(MpcKey) THEN Err("MpcKeyNotUpdatable")
    ELSE Ok([Storage EXCEPT !.MpcKey = key, !.IsPaused = TRUE])

set_mpc_key(origin, key) ==
    IF ~EnsureOrigin(origin) THEN Err("BadOrigin")
    ELSE IF ~is_clear(MpcKey) THEN Err("MpcKeyNotUpdatable")
    ELSE Ok([Storage EXCEPT !.MpcKey = key])

deposit(origin, asset, dest) ==
    transactional([result |-> "Unimplemented", storage |-> Storage])

retry_returns_ok(origin, hash) ==
    transactional(Ok(deposit_event(Storage, Retry(hash))))

retry(origin, hash) ==
    transactional([result |-> "Unimplemented",
                   storage |-> deposit_event(Storage, Retry(hash))])

execute_proposal(origin, proposals, signature) ==
    transactional([result |-> "Unimplemented", storage |-> Storage])

(***************************************************************************)
(* Actions: one dispatched extrinsic each.                                 *)
(***************************************************************************)
\* The outcome of a dispatched call is recorded and its storage written.
Commit(op, out) ==
    /\ Len(out.storage.events) <= MaxEvents
    /\ result' = out.result
    /\ MpcKey' = out.storage.MpcKey
    /\ IsPaused' = out.storage.IsPaused
    /\ DepositCounts' = out.storage.DepositCounts
    /\ UsedNonces' = out.storage.UsedNonces
    /\ events' = out.storage.events
    /\ keySetOk' = (keySetOk \/ (op = "set_mpc_key" /\ out.result = "Ok"))

Call_pause_bridge ==
    \E origin \in Origins :
        /\ call' = [op |-> "pause_bridge", origin |-> origin, arg |-> <<>>]
        /\ Commit("pause_bridge", pause_bridge(origin))

Call_unpause_bridge ==
    \E origin \in Origins :
        /\ call' = [op |-> "unpause_bridge", origin |-> origin, arg |-> <<>>]
        /\ Commit("unpause_bridge", unpause_bridge(origin))

Call_set_mpc_key ==
    \E origin \in Origins, key \in Keys :
        /\ call' = [op |-> "set_mpc_key", origin |-> origin, arg |-> <<key>>]
        /\ Commit("set_mpc_key", set_mpc_key(origin, key))

Call_deposit ==
    \E origin \in Origins, asset \in Assets, dest \in Domains,
       transactor \in TransactorOutcomes :
        /\ call' = [op |-> "deposit", origin |-> origin,
                    arg |-> <<asset, dest, transactor>>]
        /\ Commit("deposit", deposit(origin, asset, dest))

Call_retry ==
    \E origin \in Origins, hash \in Hashes :
        /\ call' = [op |-> "retry", origin |-> origin, arg |-> <<hash>>]
        /\ Commit("retry", retry(origin, hash))

Call_execute_proposal ==
    \E origin \in Origins, proposals \in Batches, signature \in Signatures :
        /\ call' = [op |-> "execute_proposal", origin |-> origin,
                    arg |-> <<proposals, signature>>]
        /\ Commit("execute_proposal", execute_proposal(origin, proposals, signature))

\* Genesis: every ValueQuery item holds its default, the double map is empty.
Init ==
    /\ MpcKey = [i \in 1..KeyLen |-> 0]
    /\ IsPaused = FALSE
    /\ DepositCounts = 0
    /\ UsedNonces = [k \in {} |-> 0]
    /\ events = <<>>
    /\ call = [op |-> "none", origin |-> "None", arg |-> <<>>]
    /\ result = "none"
    /\ keySetOk = FALSE

Next ==
    \/ Call_pause_bridge
    \/ Call_unpause_bridge
    \/ Call_set_mpc_key
    \/ Call_deposit
    \/ Call_retry
    \/ Call_execute_proposal

Spec == Init /\ [][Next]_vars

(***************************************************************************)
(* Properties.                                                             *)
(***************************************************************************)
AdminOps == {"set_mpc_key", "pause_bridge", "unpause_bridge"}

LastEvent == events[Len(events)]

\* C1: once the stored MPC key is non-empty (not all-zero), no later call of
\* any dispatchable by any caller changes its value.
MpcKeyImmutableOnceSet ==
    [][~is_clear(MpcKey) => MpcKey' = MpcKey]_vars

\* A second set_mpc_key by the committee was attempted on a non-empty key.
MpcKeyImmutableWitness ==
    /\ ~is_clear(MpcKey)
    /\ call.op = "set_mpc_key" /\ call.origin = "Root"
    /\ call.arg[1] # MpcKey
    /\ result = "MpcKeyNotUpdatable"

\* C2: set_mpc_key by an authorized caller succeeds only when the stored key
\* is empty, and once one set_mpc_key call has succeeded every later one fails
\* with MpcKeyNotUpdatable, whatever key either call passed (the all-zero key
\* included).
SetKeyExactlyOnce ==
    [][(call'.op = "set_mpc_key" /\ call'.origin = "Root") =>
         /\ (result' = "Ok" => is_clear(MpcKey))
         /\ (keySetOk => result' = "MpcKeyNotUpdatable")]_vars

\* C3: a set_mpc_key, pause_bridge or unpause_bridge call from a caller that is
\* not the bridge-committee origin fails with BadOrigin and leaves the key, the
\* pause flag, the deposit counter, the used nonces and the event log unchanged.
UnauthorizedAdminCallRejected ==
    [][(call'.op \in AdminOps /\ call'.origin # "Root") =>
         (result' = "BadOrigin" /\ UNCHANGED storageVars)]_vars

\* A signed account tried to unpause a paused bridge whose key is set.
UnauthorizedAdminCallWitness ==
    /\ call.op = "unpause_bridge" /\ call.origin = "Signed"
    /\ result = "BadOrigin"
    /\ ~is_clear(MpcKey) /\ IsPaused

\* C4 (as stated): with no MPC key set, pause_bridge and unpause_bridge fail
\* with MissingMpcKey for authorized and unauthorized callers alike, and the
\* pause flag is unchanged.
MissingKeyRegardlessOfCaller ==
    [][(is_clear(MpcKey) /\ call'.op \in {"pause_bridge", "unpause_bridge"}) =>
         (result' = "MissingMpcKey" /\ IsPaused' = IsPaused)]_vars

\* C4 (amended): with no MPC key set, pause_bridge and unpause_bridge fail with
\* MissingMpcKey for the committee origin and with BadOrigin for any other
\* caller, and the pause flag is unchanged in both cases.
MissingKeyForAuthorizedCaller ==
    [][(is_clear(MpcKey) /\ call'.op \in {"pause_bridge", "unpause_bridge"}) =>
         /\ result' = IF call'.origin = "Root" THEN "MissingMpcKey" ELSE "BadOrigin"
         /\ IsPaused' = IsPaused]_vars

\* The committee tried to pause a bridge that has no key.
MissingKeyWitness ==
    /\ is_clear(MpcKey)
    /\ call.op = "pause_bridge" /\ call.origin = "Root"
    /\ result = "MissingMpcKey"
    /\ ~IsPaused

\* C5: unpause_bridge by the committee with the key set succeeds exactly when
\* the bridge is paused; on success the bridge is unpaused and exactly one
\* BridgeUnpaused(domain) event is appended; on an unpaused bridge it fails
\* with BridgeUnpaused, the bridge stays unpaused and no event is emitted.
UnpauseIffPaused ==
    [][(call'.op = "unpause_bridge" /\ call'.origin = "Root" /\ ~is_clear(MpcKey)) =>
         IF IsPaused
         THEN /\ result' = "Ok"
              /\ IsPaused' = FALSE
              /\ events' = Append(events, BridgeUnpaused(DestDomainID))
         ELSE /\ result' = "BridgeUnpaused"
              /\ IsPaused' = FALSE
              /\ events' = events]_vars

\* The committee has unpaused a paused bridge.
UnpauseWitness ==
    /\ call.op = "unpause_bridge" /\ call.origin = "Root"
    /\ result = "Ok"
    /\ ~IsPaused
    /\ Len(events) >= 2
    /\ LastEvent = BridgeUnpaused(DestDomainID)
    /\ events[Len(events) - 1] = BridgePaused(DestDomainID)

\* C6: pause_bridge by the committee with the key set succeeds from Unpaused
\* and from Paused alike, leaves the bridge Paused, and every successful call
\* (a repeated one included) appends one BridgePaused(domain) event.
PauseIdempotent ==
    [][(call'.op = "pause_bridge" /\ call'.origin = "Root" /\ ~is_clear(MpcKey)) =>
         /\ result' = "Ok"
         /\ IsPaused' = TRUE
         /\ events' = Append(events, BridgePaused(DestDomainID))]_vars

\* The committee has paused an already paused bridge.
PauseIdempotentWitness ==
    /\ call.op = "pause_bridge" /\ call.origin = "Root"
    /\ result = "Ok"
    /\ IsPaused
    /\ Len(events) >= 2
    /\ LastEvent = BridgePaused(DestDomainID)
    /\ events[Len(events) - 1] = BridgePaused(DestDomainID)

\* The (origin domain, nonce) key of a proposal in UsedNonces.
NonceKey(p) == <<p.origin_domain_id, p.deposit_nonce>>

\* Results the deposit operation is specified to return.
DepositResults ==
    {"Ok", "BridgePaused", "AssetNotBound", "MissingFeeConfig", "TransactorFailed"}

\* C7: while the bridge is Paused, a deposit call and an execute_proposal call
\* each fail with BridgePaused and change no storage (no nonce assigned, no
\* nonce consumed, no event emitted).
PausedBlocksTransfers ==
    [][(IsPaused /\ call'.op \in {"deposit", "execute_proposal"}) =>
         (result' = "BridgePaused" /\ UNCHANGED storageVars)]_vars

\* C8: an inbound nonce (d, n) is consumed exactly once: a batch signed by the
\* MPC key, submitted to an unpaused bridge, is accepted and leaves every
\* (d, n) it carries in the used-nonce set, and a used nonce is never removed,
\* so that a later proposal with the same (d, n) finds it used.
InboundNonceConsumedOnce ==
    [][/\ DOMAIN UsedNonces \subseteq DOMAIN UsedNonces'
       /\ (/\ call'.op = "execute_proposal"
           /\ ~IsPaused /\ ~is_clear(MpcKey)
           /\ call'.arg[1] # <<>>
           /\ call'.arg[2] = "SignedByMpc") =>
            /\ result' = "Ok"
            /\ \A i \in 1..Len(call'.arg[1]) :
                   NonceKey(call'.arg[1][i]) \in DOMAIN UsedNonces']_vars

BadSignatureRejected ==
    [][(/\ call'.op = "execute_proposal"
        /\ ~IsPaused /\ ~is_clear(MpcKey)
        /\ call'.arg[1] # <<>>
        /\ ~verify(call'.arg[1], call'.arg[2])) =>
         (result' = "BadMpcSignature" /\ UsedNonces' = UsedNonces)]_vars

\* The used-nonce keys carried by a batch.
BatchKeys(proposals) == {NonceKey(proposals[i]) : i \in 1..Len(proposals)}

\* C11: a batch signed by the MPC key, submitted to an unpaused bridge, is
\* never aborted by an already-used nonce: the call returns Ok, the proposals
\* with a used nonce are skipped, and afterwards the used-nonce set is the
\* previous one extended by the nonces of the batch.
UsedNonceSkippedNotFatal ==
    [][(/\ call'.op = "execute_proposal"
        /\ ~IsPaused /\ ~is_clear(MpcKey)
        /\ Len(call'.arg[1]) >= 1
        /\ call'.arg[2] = "SignedByMpc") =>
         /\ result' = "Ok"
         /\ DOMAIN UsedNonces' = DOMAIN UsedNonces \cup BatchKeys(call'.arg[1])]_vars

\* C12: a deposit of a bound asset on an unpaused bridge whose fee transfer
\* succeeds and whose principal transfer fails returns TransactorFailed and is
\* rolled back in full: the deposit counter, the event log and the rest of the
\* storage are as before the call.
DepositPartialFailureRolledBack ==
    [][(/\ call'.op = "deposit"
        /\ ~IsPaused
        /\ call'.arg[1] = "BoundAsset"
        /\ call'.arg[3] = "PrincipalFails") =>
         (result' = "TransactorFailed" /\ UNCHANGED storageVars)]_vars

\* The names of the events in the log.
EventNames == {events[i][1] : i \in 1..Len(events)}

\* C13: retry succeeds for every caller in every state, appends exactly one
\* Retry(hash) event that stays in the log, and changes nothing else.
RetryAlwaysSignals ==
    [][call'.op = "retry" =>
         /\ result' = "Ok"
         /\ events' = Append(events, Retry(call'.arg[1]))
         /\ UNCHANGED <<MpcKey, IsPaused, DepositCounts, UsedNonces>>]_vars

\* C14: a dispatched call that returns an error leaves the MPC key, the pause
\* flag, the deposit counter, the used-nonce set and the event log as they
\* were before the call; an event deposited inside a #[transactional] call
\* before the error does not survive.
ErrorLeavesStorageUnchanged ==
    [][result' # "Ok" => UNCHANGED storageVars]_vars

\* retry has deposited its event and failed on a bridge with a non-empty log.
ErrorRollbackWitness ==
    /\ call.op = "retry"
    /\ result = "Unimplemented"
    /\ events # <<>>
    /\ "Retry" \notin EventNames

\* C15: deposit, retry and execute_proposal return Unimplemented for every
\* caller, input and state, verify returns false for every batch and
\* signature, and so the deposit counter stays 0, the used-nonce set stays
\* empty and no Deposit or Retry event is ever in the log.
StubsUnimplemented ==
    /\ call.op \in {"deposit", "retry", "execute_proposal"} => result = "Unimplemented"
    /\ \A proposals \in Batches, signature \in Signatures : ~verify(proposals, signature)
    /\ DepositCounts = 0
    /\ DOMAIN UsedNonces = {}
    /\ EventNames \cap {"Deposit", "Retry"} = {}

\* A signed batch was submitted to an unpaused bridge whose key is set.
StubsUnimplementedWitness ==
    /\ call.op = "execute_proposal"
    /\ Len(call.arg[1]) = MaxBatch
    /\ call.arg[2] = "SignedByMpc"
    /\ result = "Unimplemented"
    /\ ~is_clear(MpcKey) /\ ~IsPaused

\* C16: the bridge is unpaused at genesis and stays unpaused until a
\* pause_bridge call succeeds; after a successful set_mpc_key the bridge is
\* paused, and it stays paused until an unpause_bridge call succeeds.
PausedAfterKeySetup ==
    /\ [](call.op = "none" => ~IsPaused)
    /\ [][/\ (~IsPaused /\ IsPaused') =>
                (call'.op \in {"pause_bridge", "set_mpc_key"} /\ result' = "Ok")
          /\ (call'.op = "set_mpc_key" /\ result' = "Ok" /\ ~is_clear(MpcKey')) =>
                IsPaused'
          /\ (IsPaused /\ ~IsPaused') =>
                (call'.op = "unpause_bridge" /\ result' = "Ok")]_vars

\* The event log restricted to the pause and unpause events.
PauseEvents ==
    SelectSeq(events, LAMBDA e : e[1] \in {"BridgePaused", "BridgeUnpaused"})

\* C17: a paused bridge has a non-empty MPC key; as long as the key is empty
\* the pause flag is false and no BridgePaused or BridgeUnpaused event has
\* been emitted, whatever calls were made.
PausedOnlyWithKey ==
    /\ IsPaused => ~is_clear(MpcKey)
    /\ is_clear(MpcKey) => (~IsPaused /\ PauseEvents = <<>>)

\* The committee tried to unpause a bridge whose key is still empty after a
\* successful set_mpc_key (of the all-zero key).
PausedOnlyWithKeyWitness ==
    /\ is_clear(MpcKey) /\ keySetOk
    /\ call.op = "unpause_bridge" /\ call.origin = "Root"
    /\ result = "MissingMpcKey"
    /\ ~IsPaused /\ events = <<>>

\* C18: the pause flag agrees with the event history: the bridge is paused
\* exactly when the most recent pause or unpause event is BridgePaused
\* (unpaused when there is none), a BridgeUnpaused event is never the first of
\* them, and no two BridgeUnpaused events are adjacent among them.
PauseFlagMatchesEvents ==
    LET pe == PauseEvents
    IN  /\ IsPaused = (pe # <<>> /\ pe[Len(pe)] = BridgePaused(DestDomainID))
        /\ pe # <<>> => pe[1] = BridgePaused(DestDomainID)
        /\ \A i \in 1..(Len(pe) - 1) :
               ~(pe[i][1] = "BridgeUnpaused" /\ pe[i + 1][1] = "BridgeUnpaused")

\* The bridge was paused, unpaused and paused again.
PauseFlagMatchesEventsWitness ==
    /\ IsPaused
    /\ Len(PauseEvents) >= 3
    /\ PauseEvents[Len(PauseEvents)] = BridgePaused(DestDomainID)
    /\ PauseEvents[Len(PauseEvents) - 1] = BridgeUnpaused(DestDomainID)
    /\ PauseEvents[Len(PauseEvents) - 2] = BridgePaused(DestDomainID)

====
